---- MODULE Spec2Model ----
(***************************************************************************)
(* Model of app.py: the /malware_scrape endpoint of the MobSF report API.  *)
(*                                                                         *)
(* A stored HTML report is a sequence of elements in document order: <a>   *)
(* elements (with attributes and content), <table> elements (a body of     *)
(* <tr>, <th> and <td> elements), <section> elements (holding <a>          *)
(* elements), bare text and stray end tags.  Text is a sequence of         *)
(* one-character strings, so that strip(), lower() and the substring test  *)
(* `in` are computed character by character, as Python computes them.      *)
(***************************************************************************)
EXTENDS Integers, Sequences, FiniteSets, TLC

VARIABLES
    files,      \* REPORTS_DIR: file name -> stored file
    request,    \* per worker: the query arguments of the request it serves
    pc,         \* per worker: position inside malware_scrape()
    apk_hash,   \* per call frame: local apk_hash
    soup,       \* per call frame: local soup
    result,     \* per call frame: local result
    response,   \* per worker: the response returned
    inp,        \* the report handed to the extractor when it is applied on its own
    out         \* what the extractor returned for inp

vars == <<files, request, pc, apk_hash, soup, result, response, inp, out>>

-----------------------------------------------------------------------------
(* Bounds of the model.                                                    *)

MaxNodes == 3        \* top-level elements of a generated report
MaxTableTokens == 6  \* <tr>/<th>/<td> elements of a generated table
MaxLinks == 2        \* <a> elements of a generated section
MaxContent == 6      \* characters and inline tags of a generated cell

-----------------------------------------------------------------------------
(* Text: Python str, as a sequence of one-character strings.               *)

Whitespace == {" ", "\n", "\t"}

UpperToLower ==
    [A |-> "a", B |-> "b", D |-> "d", H |-> "h", K |-> "k", M |-> "m",
     S |-> "s", T |-> "t", U |-> "u", V |-> "v", X |-> "x"]

\* str.lower(), one character
LowerChar(c) == IF c \in DOMAIN UpperToLower THEN UpperToLower[c] ELSE c

\* str.lower()
lower(s) == [i \in 1..Len(s) |-> LowerChar(s[i])]

RECURSIVE lstrip(_)
lstrip(s) ==
    IF s # <<>> /\ Head(s) \in Whitespace THEN lstrip(Tail(s)) ELSE s

RECURSIVE rstrip(_)
rstrip(s) ==
    IF s # <<>> /\ s[Len(s)] \in Whitespace
    THEN rstrip(SubSeq(s, 1, Len(s) - 1))
    ELSE s

\* str.strip()
strip(s) == rstrip(lstrip(s))

\* Python `kw in text` on str: kw occurs as a contiguous substring
Contains(text, kw) ==
    \E i \in 1..(Len(text) - Len(kw) + 1) :
        SubSeq(text, i, i + Len(kw) - 1) = kw

\* sep.join(strs)
RECURSIVE join(_, _)
join(sep, strs) ==
    IF strs = <<>> THEN <<>>
    ELSE IF Len(strs) = 1 THEN strs[1]
    ELSE strs[1] \o sep \o join(sep, Tail(strs))

-----------------------------------------------------------------------------
(* Element content and BeautifulSoup's get_text().                         *)
(* The content of an element is a sequence of characters and inline tags   *)
(* (InlineTag stands for a child tag such as <br> or <b>): every maximal   *)
(* run of characters between tags is one text node of the element.         *)

InlineTag == "<br>"

\* the text nodes (NavigableStrings) below an element, in document order
RECURSIVE TextNodes(_, _)
TextNodes(content, cur) ==
    IF content = <<>> THEN (IF cur = <<>> THEN <<>> ELSE <<cur>>)
    ELSE IF Head(content) = InlineTag
         THEN (IF cur = <<>> THEN <<>> ELSE <<cur>>) \o TextNodes(Tail(content), <<>>)
         ELSE TextNodes(Tail(content), Append(cur, Head(content)))

\* Tag._all_strings(strip=True): each text node stripped, empty ones skipped
RECURSIVE StrippedStrings(_)
StrippedStrings(nodes) ==
    IF nodes = <<>> THEN <<>>
    ELSE LET s == strip(Head(nodes))
         IN  (IF s = <<>> THEN <<>> ELSE <<s>>) \o StrippedStrings(Tail(nodes))

\* Tag.get_text(separator, strip=True)
get_text(content, separator) ==
    join(separator, StrippedStrings(TextNodes(content, <<>>)))

-----------------------------------------------------------------------------
(* Python helpers.                                                         *)

None == "None"

Min(a, b) == IF a < b THEN a ELSE b

\* d[k] = v on a dict
DictSet(d, k, v) == [x \in DOMAIN d \cup {k} |-> IF x = k THEN v ELSE d[x]]

\* as itertools.zip_longest(keys, values, fillvalue="") would pair them
ZipLongest(keys, values) ==
    LET pos(k) == CHOOSE i \in 1..Len(keys) :
                      keys[i] = k /\ \A j \in 1..Len(keys) : keys[j] = k => j <= i
    IN  [k \in {keys[i] : i \in 1..Len(keys)} |->
            IF pos(k) <= Len(values) THEN values[pos(k)] ELSE <<>>]

\* dict(zip(keys, values)): zip stops at the shorter list, and in dict() a
\* later pair replaces an earlier pair with the same key
dict_zip(keys, values) ==
    LET m == Min(Len(keys), Len(values))
        last(k) == CHOOSE i \in 1..m :
                       keys[i] = k /\ \A j \in 1..m : keys[j] = k => j <= i
    IN  [k \in {keys[i] : i \in 1..m} |-> values[last(k)]]

\* Tag.find_all(tag) over a flat list of elements
find_all(elems, tag) == SelectSeq(elems, LAMBDA e : e.tag = tag)

\* seq[1:]
Slice1(seq) == IF seq = <<>> THEN <<>> ELSE Tail(seq)

-----------------------------------------------------------------------------
(* Tables.  The body of a <table> is its <tr>, <th> and <td> elements in   *)
(* document order; the cells that follow a <tr> up to the next <tr> are     *)
(* that row's cells, and cells before the first <tr> are in no row.         *)

TR == [tag |-> "tr", content |-> <<>>]

\* the cells of the row that starts the body (up to the next <tr>)
RECURSIVE RowCells(_)
RowCells(body) ==
    IF body = <<>> \/ Head(body).tag = "tr" THEN <<>>
    ELSE <<Head(body)>> \o RowCells(Tail(body))

\* table.find_all("tr"): every row as the sequence of its cells
RECURSIVE TableRows(_)
TableRows(body) ==
    IF body = <<>> THEN <<>>
    ELSE IF Head(body).tag = "tr"
         THEN <<RowCells(Tail(body))>> \o TableRows(Tail(body))
         ELSE TableRows(Tail(body))

\* headers = [h.get_text(strip=True).lower() for h in table.find_all("th")]
TableHeaders(table) ==
    LET ths == find_all(table.body, "th")
    IN  [i \in 1..Len(ths) |-> lower(get_text(ths[i].content, <<>>))]

\* the cells with every run of whitespace collapsed to one space
CollapsedCols(tr) ==
    LET tds == find_all(tr, "td")
        RECURSIVE squeeze(_)
        squeeze(s) ==
            IF Len(s) < 2 THEN s
            ELSE IF s[1] \in Whitespace /\ s[2] \in Whitespace
                 THEN squeeze(<<" ">> \o Tail(Tail(s)))
                 ELSE <<(IF s[1] \in Whitespace THEN " " ELSE s[1])>> \o squeeze(Tail(s))
    IN  [i \in 1..Len(tds) |-> squeeze(get_text(tds[i].content, <<" ">>))]

\* cols = [td.get_text(" ", strip=True) for td in tr.find_all("td")]
RowCols(tr) ==
    LET tds == find_all(tr, "td")
    IN  [i \in 1..Len(tds) |-> get_text(tds[i].content, <<" ">>)]

\* a record for every row, also for one without data cells
KeepEmptyRows(headers, trs) ==
    [i \in 1..Len(trs) |-> dict_zip(headers, RowCols(trs[i]))]

\* for tr in ...: cols = ...; if cols: rows.append(dict(zip(headers, cols)))
RECURSIVE RowRecords(_, _)
RowRecords(headers, trs) ==
    IF trs = <<>> THEN <<>>
    ELSE LET cols == RowCols(Head(trs))
         IN  (IF cols # <<>> THEN <<dict_zip(headers, cols)>> ELSE <<>>)
             \o RowRecords(headers, Tail(trs))

\* the body of extract_table once the table is found
TableRecords(table) ==
    RowRecords(TableHeaders(table), Slice1(TableRows(table.body)))

-----------------------------------------------------------------------------
(* Documents.  A parsed document (soup) is the sequence of its top-level   *)
(* elements in document order:                                             *)
(*   [tag |-> "a", attrs, content]      an <a> element                     *)
(*   [tag |-> "table", body]            a <table>                          *)
(*   [tag |-> "section", links]         a <section> and the <a> in it      *)
(*   [tag |-> "text"]                   bare text                          *)
(* The stored markup may also hold [tag |-> "endtag"], an end tag that     *)
(* closes nothing, which the parser drops.                                 *)

A(attrs, content) == [tag |-> "a", attrs |-> attrs, content |-> content]
Anchor(id) == A([id |-> id], <<>>)
Table(body) == [tag |-> "table", body |-> body]
Section(links) == [tag |-> "section", links |-> links]
Text == [tag |-> "text"]
EndTag == [tag |-> "endtag"]

\* BeautifulSoup(f, "html.parser"): the lenient parser builds no element
\* for an end tag that closes nothing
BeautifulSoup(markup) == SelectSeq(markup, LAMBDA e : e.tag # "endtag")

HasId(a, id) == "id" \in DOMAIN a.attrs /\ a.attrs["id"] = id

\* does top-level element e hold (or is it) an <a> whose id is section_id
HoldsAnchor(e, section_id) ==
    \/ e.tag = "a" /\ HasId(e, section_id)
    \/ e.tag = "section" /\ \E j \in 1..Len(e.links) : HasId(e.links[j], section_id)

\* the position of the last such <a> instead of the first
FindLastAnchor(doc, section_id) ==
    LET hits == {i \in 1..Len(doc) : HoldsAnchor(doc[i], section_id)}
    IN  IF hits = {} THEN 0 ELSE CHOOSE i \in hits : \A j \in hits : j <= i

\* soup.find("a", {"id": section_id}): the position (index of the top-level
\* element holding it) of the first such <a> in document order, 0 for None
find_anchor(doc, section_id) ==
    LET hits == {i \in 1..Len(doc) : HoldsAnchor(doc[i], section_id)}
    IN  IF hits = {} THEN 0 ELSE CHOOSE i \in hits : \A j \in hits : i <= j

\* anchor.find_next(tag): the first <table>/<section> that starts after the
\* anchor at pos in document order, 0 for None
find_next(doc, pos, tag) ==
    LET hits == {i \in (pos + 1)..Len(doc) : doc[i].tag = tag}
    IN  IF hits = {} THEN 0 ELSE CHOOSE i \in hits : \A j \in hits : i <= j

\* the first table of the document, whether or not the anchor is there
ExtractAnyTable(doc, section_id) ==
    LET hits == {i \in 1..Len(doc) : doc[i].tag = "table"}
    IN  IF hits = {} THEN <<>>
        ELSE TableRecords(doc[CHOOSE i \in hits : \A j \in hits : i <= j])

\* def extract_table(section_id)
extract_table(doc, section_id) ==
    LET anchor == find_anchor(doc, section_id)
    IN  IF anchor = 0 THEN <<>>
        ELSE LET table == find_next(doc, anchor, "table")
             IN  IF table = 0 THEN <<>> ELSE TableRecords(doc[table])

-----------------------------------------------------------------------------
(* Malware lookup links.                                                   *)

kw_virustotal == <<"v", "i", "r", "u", "s", "t", "o", "t", "a", "l">>
kw_triage == <<"t", "r", "i", "a", "g", "e">>
kw_metadefender == <<"m", "e", "t", "a", "d", "e", "f", "e", "n", "d", "e", "r">>
kw_hybrid == <<"h", "y", "b", "r", "i", "d">>

Services == {"virustotal", "triage", "metadefender", "hybrid_analysis"}

\* the chain with the hybrid test moved to the front
ClassifyHybridFirst(text) ==
    IF Contains(text, kw_hybrid) THEN "hybrid_analysis"
    ELSE IF Contains(text, kw_virustotal) THEN "virustotal"
    ELSE IF Contains(text, kw_triage) THEN "triage"
    ELSE IF Contains(text, kw_metadefender) THEN "metadefender"
    ELSE None

\* the if/elif chain on the link text: the key the link is stored under
Classify(text) ==
    IF Contains(text, kw_virustotal) THEN "virustotal"
    ELSE IF Contains(text, kw_triage) THEN "triage"
    ELSE IF Contains(text, kw_metadefender) THEN "metadefender"
    ELSE IF Contains(text, kw_hybrid) THEN "hybrid_analysis"
    ELSE None

\* container.find_all("a", href=True)
LinksWithHref(container) ==
    SelectSeq(container.links, LAMBDA a : "href" \in DOMAIN a.attrs)

\* a key once stored is not overwritten
StoreFirstOnly(lookup, link) ==
    LET key == Classify(lower(get_text(link.content, <<>>)))
    IN  IF key = None \/ key \in DOMAIN lookup THEN lookup
        ELSE DictSet(lookup, key, link.attrs["href"])

\* one pass of `for link in links:` on result["malware_lookup"]
StoreLink(lookup, link) ==
    LET text == lower(get_text(link.content, <<>>))
        href == link.attrs["href"]
        key  == Classify(text)
    IN  IF key = None THEN lookup ELSE DictSet(lookup, key, href)

RECURSIVE StoreLinks(_, _)
StoreLinks(lookup, links) ==
    IF links = <<>> THEN lookup
    ELSE StoreLinks(StoreLink(lookup, Head(links)), Tail(links))

\* the "Malware lookup links" block, on result["malware_lookup"]
malware_lookup(doc, lookup) ==
    LET malware_section == find_anchor(doc, "malware_lookup")
    IN  IF malware_section = 0 THEN lookup
        ELSE LET container == find_next(doc, malware_section, "section")
             IN  IF container = 0 THEN lookup
                 ELSE StoreLinks(lookup, LinksWithHref(doc[container]))

-----------------------------------------------------------------------------
(* The parsed report.                                                      *)

\* result = {"malware_lookup": {}, "apkid_analysis": [], ...}
EmptyResult ==
    [malware_lookup |-> <<>>, apkid_analysis |-> <<>>, behaviour_analysis |-> <<>>,
     domain_malware_check |-> <<>>, urls |-> <<>>, emails |-> <<>>]

\* result key -> anchor id, in the order of the assignments that follow the
\* malware lookup block
TableSections ==
    << <<"apkid_analysis", "apkid">>, <<"behaviour_analysis", "behaviour">>,
       <<"domain_malware_check", "malware_check">>, <<"urls", "urls">>,
       <<"emails", "emails">> >>

RECURSIVE AssignTables(_, _, _)
AssignTables(res, doc, sections) ==
    IF sections = <<>> THEN res
    ELSE AssignTables(
             DictSet(res, Head(sections)[1], extract_table(doc, Head(sections)[2])),
             doc, Tail(sections))

\* what malware_scrape builds in `result` for a parsed document
ParsedReport(doc) ==
    AssignTables(
        DictSet(EmptyResult, "malware_lookup", malware_lookup(doc, <<>>)),
        doc, TableSections)

-----------------------------------------------------------------------------
(* The handler malware_scrape(), one action per statement group.  Flask    *)
(* serves each request on a worker of its own; the locals of a call live   *)
(* in that call's frame.                                                   *)

Workers == {"w1", "w2"}

\* one frame for every call, as module-level variables would be
FrameShared(w) == "w1"

\* the frame that holds the locals of the call running on worker w
Frame(w) == w

\* request.args.get(name)
ArgsGet(args, name) == IF name \in DOMAIN args THEN args[name] ELSE None

\* os.path.join(REPORTS_DIR, f"{apk_hash}_static_analyzer.html")
html_file(hash) == hash \o "_static_analyzer.html"

\* os.path.exists(path)
Exists(path) == path \in DOMAIN files

\* as open(..., errors="ignore") would read it
DecodesIgnoringErrors(f) == TRUE

\* reading f through open(..., encoding="utf-8") succeeds: its bytes are
\* valid UTF-8 (otherwise the read raises UnicodeDecodeError)
Decodes(f) == f.utf8

\* jsonify({"error": message}), status
ErrorResponse(status, message) == [status |-> status, body |-> [error |-> message]]

\* the 500 response Flask gives for the exception raised while reading
\* the file as UTF-8
DecodeFailure == ErrorResponse(500, "UnicodeDecodeError")

\* the 500 response Flask gives for the exception open() raises when the
\* file is not there
OpenFailure == ErrorResponse(500, "FileNotFoundError")

\* jsonify({"hash": apk_hash, "parsed_report": result})
ReportResponse(hash, report) ==
    [status |-> 200, body |-> [hash |-> hash, parsed_report |-> report]]

NextSection ==
    [apkid |-> "behaviour", behaviour |-> "malware_check", malware_check |-> "urls",
     urls |-> "emails", emails |-> "return"]

ResultKey ==
    [apkid |-> "apkid_analysis", behaviour |-> "behaviour_analysis",
     malware_check |-> "domain_malware_check", urls |-> "urls", emails |-> "emails"]

Finish(w, resp) ==
    /\ response' = [response EXCEPT ![w] = resp]
    /\ pc' = [pc EXCEPT ![w] = "done"]

Goto(w, step) ==
    /\ pc' = [pc EXCEPT ![w] = step]
    /\ UNCHANGED response

\* apk_hash = request.args.get("hash"); if not apk_hash: return ..., 400
ReadArgs(w) ==
    /\ pc[w] = "args"
    /\ LET h == ArgsGet(request[w], "hash")
       IN  /\ apk_hash' = [apk_hash EXCEPT ![Frame(w)] = h]
           /\ IF h = None \/ h = ""
              THEN Finish(w, ErrorResponse(400, "hash query parameter is required"))
              ELSE Goto(w, "exists")
    /\ UNCHANGED <<files, request, soup, result, inp, out>>

\* if not os.path.exists(html_file): return ..., 404
CheckExists(w) ==
    /\ pc[w] = "exists"
    /\ IF ~Exists(html_file(apk_hash[Frame(w)]))
       THEN Finish(w, ErrorResponse(404, "Static analyzer HTML report not found"))
       ELSE Goto(w, "open")
    /\ UNCHANGED <<files, request, apk_hash, soup, result, inp, out>>

\* with open(html_file, "r", encoding="utf-8") as f: soup = BeautifulSoup(f, ...)
OpenAndParse(w) ==
    /\ pc[w] = "open"
    /\ LET path == html_file(apk_hash[Frame(w)])
       IN  IF ~Exists(path)
           THEN Finish(w, OpenFailure) /\ UNCHANGED soup
           ELSE IF ~Decodes(files[path])
           THEN Finish(w, DecodeFailure) /\ UNCHANGED soup
           ELSE /\ soup' = [soup EXCEPT ![Frame(w)] = BeautifulSoup(files[path].markup)]
                /\ Goto(w, "init")
    /\ UNCHANGED <<files, request, apk_hash, result, inp, out>>

\* result = {...}
InitResult(w) ==
    /\ pc[w] = "init"
    /\ result' = [result EXCEPT ![Frame(w)] = EmptyResult]
    /\ Goto(w, "lookup")
    /\ UNCHANGED <<files, request, apk_hash, soup, inp, out>>

\* the "Malware lookup links" block
LookupLinks(w) ==
    /\ pc[w] = "lookup"
    /\ LET res == result[Frame(w)]
       IN  result' = [result EXCEPT ![Frame(w)] =
               DictSet(res, "malware_lookup",
                       malware_lookup(soup[Frame(w)], res["malware_lookup"]))]
    /\ Goto(w, "apkid")
    /\ UNCHANGED <<files, request, apk_hash, soup, inp, out>>

\* result[key] = extract_table(section_id), five times
AssignTable(w) ==
    /\ pc[w] \in DOMAIN NextSection
    /\ result' = [result EXCEPT ![Frame(w)] =
           DictSet(result[Frame(w)], ResultKey[pc[w]],
                   extract_table(soup[Frame(w)], pc[w]))]
    /\ Goto(w, NextSection[pc[w]])
    /\ UNCHANGED <<files, request, apk_hash, soup, inp, out>>

\* return jsonify({"hash": apk_hash, "parsed_report": result})
Return(w) ==
    /\ pc[w] = "return"
    /\ Finish(w, ReportResponse(apk_hash[Frame(w)], result[Frame(w)]))
    /\ UNCHANGED <<files, request, apk_hash, soup, result, inp, out>>

Next ==
    \E w \in Workers :
        \/ ReadArgs(w)
        \/ CheckExists(w)
        \/ OpenAndParse(w)
        \/ InitResult(w)
        \/ LookupLinks(w)
        \/ AssignTable(w)
        \/ Return(w)

\* the extractor applied to the report inp, as one step
Extract ==
    /\ ~out.done
    /\ out' = [done |-> TRUE, report |-> ParsedReport(BeautifulSoup(inp))]
    /\ UNCHANGED <<files, request, pc, apk_hash, soup, result, response, inp>>

NextExtract == Extract

-----------------------------------------------------------------------------
(* Stored reports and requests the model is run on.                        *)

\* all sequences over S of length at most n
SeqsUpTo(S, n) == UNION {[1..k -> S] : k \in 0..n}

Th(content) == [tag |-> "th", content |-> content]
Td(content) == [tag |-> "td", content |-> content]
Link(content, href) == A([href |-> href], content)

txt_Url == <<" ", "U", "r", "l", " ">>
txt_Key == <<"K", "e", "y">>
txt_x == <<"x">>
txt_y == <<" ", "y", " ", " ", "z">>

txt_VirusTotalScan ==
    <<"V", "i", "r", "u", "s", "T", "o", "t", "a", "l", " ", "S", "c", "a", "n">>
txt_Triage == <<" ", "T", "r", "i", "a", "g", "e", "\n">>
txt_MetaDefender == <<"M", "e", "t", "a", "D", "e", "f", "e", "n", "d", "e", "r">>
txt_Hybrid == <<"H", "y", "b", "r", "i", "d">>
txt_HybridTriage ==
    <<"h", "y", "b", "r", "i", "d", " ", "t", "r", "i", "a", "g", "e">>
txt_VirusBrTotal ==
    <<"V", "i", "r", "u", "s", " ", InlineTag, "T", "o", "t", "a", "l">>
txt_docs == <<"d", "o", "c", "s">>

\* the elements a generated table is made of
TableTokens == {TR, Th(txt_Url), Th(txt_Key), Td(txt_x), Td(txt_y)}

TableBodies == SeqsUpTo(TableTokens, MaxTableTokens)

LinkTexts ==
    {txt_VirusTotalScan, txt_Triage, txt_MetaDefender, txt_Hybrid,
     txt_HybridTriage, txt_VirusBrTotal, txt_docs}

\* the <a> elements a generated section is made of: with one of two
\* targets, or without href
LinkPool ==
    {Link(t, u) : t \in LinkTexts, u \in {"https://vt.example/x", "https://b.example/y"}}
        \cup {A(<<>>, t) : t \in LinkTexts}

Sections == SeqsUpTo(LinkPool, MaxLinks)

\* the characters and inline tags a generated cell is made of
ContentTokens == {"a", " ", "\n", InlineTag}

Contents == SeqsUpTo(ContentTokens, MaxContent)

T1 == Table(<<TR, Th(txt_Key), TR, Td(txt_x)>>)
T2 == Table(<<TR, Th(txt_Key), TR, Td(txt_y)>>)
S1 == Section(<<Link(txt_VirusTotalScan, "https://vt.example/x")>>)
S2 == Section(<<A([href |-> "https://b.example/y", id |-> "urls"], txt_Triage)>>)

\* the top-level elements a generated report is made of
NodePool ==
    {Anchor("urls"), Anchor("emails"), Anchor("malware_lookup"), Anchor("top"),
     T1, T2, S1, S2, Text, EndTag}

Markups == SeqsUpTo(NodePool, MaxNodes)

File(markup) == [utf8 |-> TRUE, markup |-> markup]

\* a stored file whose bytes are not valid UTF-8
Undecodable == [utf8 |-> FALSE, markup |-> <<>>]

\* the query strings of the requests: no hash, an empty hash, the hashes of
\* the stored reports, a hash with no stored report
QueryArgs ==
    {<<>>, [hash |-> ""], [hash |-> "h1"], [hash |-> "h2"], [hash |-> "h3"]}

Idle ==
    /\ apk_hash = [w \in Workers |-> None]
    /\ soup = [w \in Workers |-> <<>>]
    /\ result = [w \in Workers |-> <<>>]
    /\ response = [w \in Workers |-> [status |-> 0]]

NoExtract ==
    /\ inp = <<>>
    /\ out = [done |-> FALSE]

\* one request in flight, on any stored report
Init ==
    /\ \E f \in {File(m) : m \in Markups} \cup {Undecodable} :
           files = [p \in {html_file("h1")} |-> f]
    /\ \E q \in QueryArgs : request = [w \in Workers |-> IF w = "w1" THEN q ELSE <<>>]
    /\ pc = [w \in Workers |-> IF w = "w1" THEN "args" ELSE "done"]
    /\ Idle
    /\ NoExtract

Spec == Init /\ [][Next]_vars

DocA == <<Anchor("urls"), T1>>
DocB == <<Anchor("malware_lookup"), S1, Anchor("urls"), T2, Anchor("emails"), T1>>

\* two requests in flight at once, on two stored reports
InitConc ==
    /\ files \in [{html_file("h1"), html_file("h2")} ->
                     {File(DocA), File(DocB), File(<<>>), Undecodable}]
    /\ request \in [Workers -> QueryArgs]
    /\ pc = [w \in Workers |-> "args"]
    /\ Idle
    /\ NoExtract

SpecConc == InitConc /\ [][Next]_vars

NoRequests ==
    /\ files = <<>>
    /\ request = [w \in Workers |-> <<>>]
    /\ pc = [w \in Workers |-> "done"]
    /\ Idle

\* the extractor on a report that is one section anchor and one table
InitTable ==
    /\ \E b \in TableBodies : inp = <<Anchor("urls"), Table(b)>>
    /\ out = [done |-> FALSE]
    /\ NoRequests

SpecTable == InitTable /\ [][NextExtract]_vars

\* the extractor on a report that is the lookup anchor and one section
InitLinks ==
    /\ \E ls \in Sections : inp = <<Anchor("malware_lookup"), Section(ls)>>
    /\ out = [done |-> FALSE]
    /\ NoRequests

SpecLinks == InitLinks /\ [][NextExtract]_vars

\* the extractor on a one-column table with one data cell of any content
InitText ==
    /\ \E c \in Contents :
           inp = <<Anchor("emails"), Table(<<TR, Th(txt_Key), TR, Td(c)>>)>>
    /\ out = [done |-> FALSE]
    /\ NoRequests

SpecText == InitText /\ [][NextExtract]_vars

-----------------------------------------------------------------------------
(* Table extraction (SpecTable): the report is <a id="urls"> followed by    *)
(* one table, and out.report.urls is what extract_table("urls") returned.  *)

TheTable == inp[2]

\* the rows after the table's first row that hold at least one <td>
DataRows ==
    SelectSeq(Slice1(TableRows(TheTable.body)),
              LAMBDA tr : \E i \in 1..Len(tr) : tr[i].tag = "td")

\* C2: for every data row with c >= 1 data cells in a table with h header
\* cells, the record is the pairing of the first min(h, c) field names with
\* the first min(h, c) cells and nothing else (of two equal field names the
\* later pairing is the one kept): with c < h only the first c fields are
\* in the record, with c > h the cells beyond position h are dropped, and
\* extraction returns normally
C2_ZipShorter ==
    out.done =>
        LET headers == TableHeaders(TheTable)
            recs    == out.report.urls
        IN  /\ Len(recs) = Len(DataRows)
            /\ \A k \in 1..Len(DataRows) :
                   LET cols == RowCols(DataRows[k])
                       h == Len(headers)
                       c == Len(cols)
                       m == IF h < c THEN h ELSE c
                       rec == recs[k]
                   IN  /\ c >= 1
                       /\ DOMAIN rec = {headers[i] : i \in 1..m}
                       /\ \A i \in 1..m :
                              (\A j \in (i + 1)..m : headers[j] # headers[i])
                                  => rec[headers[i]] = cols[i]
                       /\ c < h => \A i \in (c + 1)..h :
                              (\A j \in 1..c : headers[j] # headers[i])
                                  => headers[i] \notin DOMAIN rec
                       /\ c > h => Cardinality(DOMAIN rec) <= h

\* a row of one cell under two differently named headers gave a record of
\* the first field only
C2_Witness ==
    /\ out.done
    /\ Len(TableHeaders(TheTable)) = 2
    /\ TableHeaders(TheTable)[1] # TableHeaders(TheTable)[2]
    /\ Len(DataRows) = 1
    /\ Len(RowCols(DataRows[1])) = 1
    /\ DOMAIN out.report.urls[1] = {TableHeaders(TheTable)[1]}

\* the k-th smallest element of a set of numbers
Kth(S, k) == CHOOSE i \in S : Cardinality({j \in S : j <= i}) = k

\* C3: the records returned are, in source row order, exactly one record for
\* each row after the table's first row that has at least one data cell:
\* the first row is never emitted, a row without data cells is omitted, and
\* rows are neither reordered nor deduplicated
C3_RowOrder ==
    out.done =>
        LET rows == TableRows(TheTable.body)
            data == {i \in 2..Len(rows) : \E j \in 1..Len(rows[i]) : rows[i][j].tag = "td"}
            recs == out.report.urls
        IN  /\ Len(recs) = Cardinality(data)
            /\ \A k \in 1..Len(recs) :
                   recs[k] = dict_zip(TableHeaders(TheTable), RowCols(rows[Kth(data, k)]))

\* two identical data rows after a header row gave two equal records
C3_Witness ==
    /\ out.done
    /\ LET rows == TableRows(TheTable.body)
       IN  /\ Len(rows) = 3
           /\ rows[1] # <<>>
           /\ rows[2] = rows[3]
           /\ Len(out.report.urls) = 2
           /\ out.report.urls[1] = out.report.urls[2]
           /\ DOMAIN out.report.urls[1] # {}

\* the header cells of the table's first row, lowercased and trimmed
FirstRowHeaders(table) ==
    LET rows == TableRows(table.body)
        ths  == IF rows = <<>> THEN <<>> ELSE find_all(rows[1], "th")
    IN  [i \in 1..Len(ths) |-> lower(get_text(ths[i].content, <<>>))]

\* C9: the field names are the header cells of the table's first row only,
\* lowercased and trimmed; header cells of a later row do not become field
\* names (violated: the code takes every <th> of the table)
C9_FirstRowHeadersOnly ==
    out.done =>
        out.report.urls =
            RowRecords(FirstRowHeaders(TheTable), Slice1(TableRows(TheTable.body)))

-----------------------------------------------------------------------------
(* Link classification (SpecLinks): the report is <a id="malware_lookup">   *)
(* followed by one section, and out.report.malware_lookup is the mapping    *)
(* built from the section's links.                                          *)

\* the keywords in their fixed test order, each with the key it maps to
KeywordOrder ==
    << <<kw_virustotal, "virustotal">>, <<kw_triage, "triage">>,
       <<kw_metadefender, "metadefender">>, <<kw_hybrid, "hybrid_analysis">> >>

\* the link's text as tested, link.get_text(strip=True).lower(): its text
\* nodes stripped and put together, lowercased
TestedText(link) == lower(get_text(link.content, <<>>))

\* the positions in KeywordOrder of the keywords the link's text contains
Matches(link) ==
    {i \in 1..Len(KeywordOrder) : Contains(TestedText(link), KeywordOrder[i][1])}

\* does the link take effect under key: key belongs to the earliest-listed
\* keyword its text contains
TakesEffect(link, key) ==
    \E i \in Matches(link) :
        /\ \A j \in Matches(link) : i <= j
        /\ KeywordOrder[i][2] = key

\* the hyperlinks of the section: its <a> elements that have a target
Hyperlinks == SelectSeq(inp[2].links, LAMBDA a : "href" \in DOMAIN a.attrs)

\* C4: each hyperlink of the container is assigned to at most one service
\* key, the key of the earliest-listed keyword (virustotal, triage,
\* metadefender, hybrid) that its lowercased text contains, and a link whose
\* text contains none of the four contributes nothing: a key is in
\* malware_lookup exactly when some hyperlink takes effect under it, with
\* the target of such a hyperlink as its value
C4_EarliestKeyword ==
    out.done =>
        LET lookup == out.report.malware_lookup
        IN  /\ DOMAIN lookup \subseteq Services
            /\ \A key \in Services :
                   key \in DOMAIN lookup <=>
                       \E i \in 1..Len(Hyperlinks) : TakesEffect(Hyperlinks[i], key)
            /\ \A key \in DOMAIN lookup :
                   \E i \in 1..Len(Hyperlinks) :
                       /\ TakesEffect(Hyperlinks[i], key)
                       /\ lookup[key] = Hyperlinks[i].attrs["href"]
            /\ Len(Hyperlinks) = 1 => Cardinality(DOMAIN lookup) <= 1

\* a link whose text contains both "hybrid" and "triage" was stored under
\* triage only, and a link matching no keyword beside it left no entry
C4_Witness ==
    /\ out.done
    /\ Len(Hyperlinks) = 2
    /\ Matches(Hyperlinks[1]) = {2, 4}
    /\ Matches(Hyperlinks[2]) = {}
    /\ DOMAIN out.report.malware_lookup = {"triage"}
    /\ out.report.malware_lookup["triage"] = Hyperlinks[1].attrs["href"]

-----------------------------------------------------------------------------
(* Cell text (SpecText): the report is <a id="emails"> followed by a table  *)
(* of one header cell "Key" and one data cell of any content.               *)

TheContent == inp[2].body[4].content

\* the value extracted for the data cell
TheValue == out.report.emails[1][<<"k", "e", "y">>]

AllWhitespace(s) == \A i \in 1..Len(s) : s[i] \in Whitespace

Trimmed(s) == s = <<>> \/ (s[1] \notin Whitespace /\ s[Len(s)] \notin Whitespace)

\* a and b joined by one space, or the one that is not empty
JoinNonEmpty(a, b) ==
    IF a = <<>> THEN b ELSE IF b = <<>> THEN a ELSE a \o <<" ">> \o b

\* C10 as stated: every cell value has no leading or trailing whitespace and
\* every internal run of whitespace of the source cell text is collapsed to
\* a single space (violated: whitespace inside a text node is kept)
C10_WhitespaceCollapsed ==
    out.done =>
        /\ Trimmed(TheValue)
        /\ \A i \in 1..Len(TheValue) :
               TheValue[i] \in Whitespace =>
                   /\ TheValue[i] = " "
                   /\ i < Len(TheValue) => TheValue[i + 1] \notin Whitespace

\* C10 amended: every cell value has no leading or trailing whitespace; the
\* text between two child tags of the cell is trimmed, the pieces that are
\* not empty are joined by single spaces, and the whitespace inside a piece
\* is kept as it is
C10_TrimmedPieces ==
    out.done =>
        /\ Len(out.report.emails) = 1
        /\ Trimmed(TheValue)
        /\ InlineTag \notin {TheContent[i] : i \in 1..Len(TheContent)} =>
               \E i \in 0..Len(TheContent), j \in 0..Len(TheContent) :
                   /\ i <= j
                   /\ AllWhitespace(SubSeq(TheContent, 1, i))
                   /\ AllWhitespace(SubSeq(TheContent, j + 1, Len(TheContent)))
                   /\ TheValue = SubSeq(TheContent, i + 1, j)
        /\ \A i \in 1..Len(TheContent) :
               TheContent[i] = InlineTag =>
                   TheValue =
                       JoinNonEmpty(
                           get_text(SubSeq(TheContent, 1, i - 1), <<" ">>),
                           get_text(SubSeq(TheContent, i + 1, Len(TheContent)), <<" ">>))

\* a cell with surrounding whitespace and a run of two whitespace
\* characters inside came out trimmed, with the run kept
C10_Witness ==
    /\ out.done
    /\ Len(TheContent) >= 5
    /\ InlineTag \notin {TheContent[i] : i \in 1..Len(TheContent)}
    /\ TheContent[1] \in Whitespace
    /\ Len(TheValue) = 4
    /\ TheValue[2] \in Whitespace
    /\ TheValue[3] \in Whitespace

-----------------------------------------------------------------------------
(* The endpoint (Spec, SpecConc).                                          *)

SectionKeys ==
    {"malware_lookup", "apkid_analysis", "behaviour_analysis",
     "domain_malware_check", "urls", "emails"}

\* worker w has returned, for a request that names a stored file
Served(w) ==
    /\ pc[w] = "done"
    /\ "hash" \in DOMAIN request[w]
    /\ request[w]["hash"] # ""
    /\ html_file(request[w]["hash"]) \in DOMAIN files

\* the stored file worker w's request names
Stored(w) == files[html_file(request[w]["hash"])]

\* is element e an <a> with this id, or a section that holds one
IsAnchorOf(e, id) ==
    \/ e.tag = "a" /\ "id" \in DOMAIN e.attrs /\ e.attrs["id"] = id
    \/ /\ e.tag = "section"
       /\ \E j \in 1..Len(e.links) :
              "id" \in DOMAIN e.links[j].attrs /\ e.links[j].attrs["id"] = id

\* the markup has no anchor with this id, or nothing of this kind after one
Absent(markup, id, kind) ==
    ~ \E i \in 1..Len(markup), j \in 1..Len(markup) :
          i < j /\ IsAnchorOf(markup[i], id) /\ markup[j].tag = kind

\* C1: for every document that is loaded, the parsed report returned has
\* exactly the six keys malware_lookup, apkid_analysis, behaviour_analysis,
\* domain_malware_check, urls and emails; a section whose anchor, or whose
\* table or container, is absent has the empty mapping (malware_lookup) or
\* the empty sequence (the table sections) as its value, and every value is
\* a mapping or a sequence, never missing
C1_SixKeys ==
    \A w \in Workers :
        (Served(w) /\ Stored(w).utf8) =>
            /\ response[w].status = 200
            /\ LET report == response[w].body.parsed_report
                   markup == Stored(w).markup
               IN  /\ DOMAIN report = SectionKeys
                   /\ DOMAIN report.malware_lookup \subseteq Services
                   /\ \A id \in DOMAIN ResultKey :
                          /\ DOMAIN report[ResultKey[id]] = 1..Len(report[ResultKey[id]])
                          /\ Absent(markup, id, "table") => report[ResultKey[id]] = <<>>
                   /\ Absent(markup, "malware_lookup", "section")
                          => report.malware_lookup = <<>>

\* a report whose document has the urls section and neither the emails
\* section nor the lookup section: urls is filled, the others are empty
C1_Witness ==
    /\ Served("w1")
    /\ response["w1"].status = 200
    /\ response["w1"].body.parsed_report.urls # <<>>
    /\ response["w1"].body.parsed_report.emails = <<>>
    /\ response["w1"].body.parsed_report.malware_lookup = <<>>
    /\ Absent(Stored("w1").markup, "emails", "table")

\* the stored content holds no element at all: it is empty, or bare text
\* and end tags that close nothing
NoMarkup(f) == \A i \in 1..Len(f.markup) : f.markup[i].tag \in {"text", "endtag"}

C8_NearestTableAfterFirstAnchor ==
    \A w \in Workers :
        (Served(w) /\ Stored(w).utf8) =>
            /\ response[w].status = 200
            /\ \A id \in DOMAIN ResultKey :
                   LET markup == Stored(w).markup
                       records == response[w].body.parsed_report[ResultKey[id]]
                   IN  \/ \E i \in 1..Len(markup), j \in 1..Len(markup) :
                              /\ i < j
                              /\ IsAnchorOf(markup[i], id)
                              /\ \A k \in 1..(i - 1) : ~IsAnchorOf(markup[k], id)
                              /\ markup[j].tag = "table"
                              /\ \A k \in (i + 1)..(j - 1) : markup[k].tag # "table"
                              /\ records = TableRecords(markup[j])
                       \/ /\ Absent(markup, id, "table")
                          /\ records = <<>>

\* the urls anchor, another anchor, then a table: the table's records are
\* the urls section
C8_Witness ==
    /\ Served("w1")
    /\ response["w1"].status = 200
    /\ Len(Stored("w1").markup) = 3
    /\ Stored("w1").markup[1] = Anchor("urls")
    /\ Stored("w1").markup[2].tag = "a"
    /\ Stored("w1").markup[3].tag = "table"
    /\ response["w1"].body.parsed_report.urls = TableRecords(Stored("w1").markup[3])
    /\ response["w1"].body.parsed_report.urls # <<>>

\* the response to a request when it is served alone
Alone(args) ==
    LET hash == IF "hash" \in DOMAIN args THEN args["hash"] ELSE None
        path == html_file(hash)
    IN  IF hash = None \/ hash = ""
        THEN ErrorResponse(400, "hash query parameter is required")
        ELSE IF path \notin DOMAIN files
        THEN ErrorResponse(404, "Static analyzer HTML report not found")
        ELSE IF ~files[path].utf8
        THEN DecodeFailure
        ELSE ReportResponse(hash, ParsedReport(BeautifulSoup(files[path].markup)))

\* C7: the extraction holds no shared mutable state: the report produced
\* for a document depends only on that document, so two extractions of the
\* same document give identical output, and extractions running
\* concurrently, their steps interleaved in any way, each give the response
\* they give when run alone
C7_NoSharedState ==
    /\ \A w \in Workers : pc[w] = "done" => response[w] = Alone(request[w])
    /\ \A v, w \in Workers :
           (pc[v] = "done" /\ pc[w] = "done" /\ request[v] = request[w])
               => response[v] = response[w]

\* two requests for two different stored documents were both served, each
\* with its own document's report
C7_Witness ==
    /\ pc["w1"] = "done" /\ pc["w2"] = "done"
    /\ request["w1"] = [hash |-> "h1"] /\ request["w2"] = [hash |-> "h2"]
    /\ response["w1"].status = 200 /\ response["w2"].status = 200
    /\ response["w1"].body.parsed_report # response["w2"].body.parsed_report
    /\ response["w1"].body.parsed_report.urls # <<>>
    /\ response["w2"].body.parsed_report.malware_lookup # <<>>

====
